---- MODULE Spec2Model ----
(***************************************************************************)
(* The Tenexium validator (scripts/validator.py): the block-driven loop    *)
(* run_validator of TenexiumValidator, with the operations it calls.       *)
(* One action per statement group of the loop; the chain, the metagraph,   *)
(* the contract reads and subtensor.set_weights are the environment.       *)
(* Spec is run_validator; SpecMain is main, with load_state before the     *)
(* loop and save_state after it; SpecFresh is main without a state file;   *)
(* SpecLive is the loop under fairness; SpecStamps is the loop with each   *)
(* contribution's last_updated_block; SpecWeights applies validate_miners  *)
(* and calculate_weights to inputs fixed beforehand; SpecCli is one run of *)
(* add_liquidity or remove_liquidity of scripts/tenex.py. Floats are       *)
(* rounded to nearest, ties to even, as Python's are, with a shorter       *)
(* mantissa.                                                               *)
(***************************************************************************)
EXTENDS Integers, Sequences, FiniteSets, TLC

\* ------------------------------------------------------------------ bounds

\* Block heights the chain reports are 0..MaxBlock.
MaxBlock == 2

\* Floats carry a mantissa of MantissaBits bits and are whole multiples of
\* 2^-FractionBits.
MantissaBits == 4

FractionBits == 10

\* The largest amount of wei an account, a stake or a request holds.
MaxWei == 2

\* ------------------------------------------------------------- environment

Blocks == 0..MaxBlock

\* current_block before the first read of the loop (an unassigned local).
NoBlock == -1

\* WEIGHT_UPDATE_INTERVAL_BLOCKS is int(os.getenv(...)): any integer, also a
\* negative one or zero.
Intervals == {-1, 0, 1}

\* The hotkeys that are ever registered on the subnet.
Hotkeys == {"hkA", "hkB"}

\* metagraph.hotkeys after a sync, in uid order.
HotkeyLists == {<<>>, <<"hkA">>, <<"hkA", "hkB">>}

\* The metagraph object: its hotkeys, and whether the hotkeys attribute can be
\* read (validate_miners and calculate_weights both guard the read with try).
Metagraphs ==
    {[ok |-> TRUE, hotkeys |-> l] : l \in HotkeyLists}
        \cup {[ok |-> FALSE, hotkeys |-> <<"hkA", "hkB">>]}

\* A contract read that raised.
ReadFailed == -1

\* What getLpInfo returns as stake (in TAO) and liquidatorScores as score, when
\* they return.
Stakes == {0, 1}

LiquidatorScores == {0}

\* The hotkeys, their orders in the metagraph and the liquidator scores of the
\* specification that applies validate_miners and calculate_weights to inputs
\* fixed beforehand.
ManyHotkeys == {"hkA", "hkB", "hkC"}

ManyHotkeyLists ==
    {l \in UNION {[1..n -> ManyHotkeys] : n \in 0..3} :
        \A i, j \in DOMAIN l : i # j => l[i] # l[j]}

ManyLiquidatorScores == {0, 1}

\* What the contract answers for a hotkey: getLpInfo's stake and the
\* liquidatorScores value, each one a value or a raise.
NoReads == [liq |-> ReadFailed, lsc |-> ReadFailed]

\* What subtensor.set_weights hands back: a bare bool, or the pair
\* (success, detail) of the submitter's contract.
SetWeightsResults == [shape : {"bool", "tuple"}, success : BOOLEAN]

NoResult == [shape |-> "none", success |-> FALSE]

\* Python's truth value of the returned object, as `if result:` takes it:
\* a bool is itself, a non-empty tuple is true whatever it holds.
Truthy(r) == IF r.shape = "tuple" THEN TRUE ELSE r.success

\* A hotkey without an entry in miner_contributions.
NoContribution == [total_score |-> -1]

\* tenexium_validator_state.json: absent, or what save_state wrote, or a file
\* that json.load cannot read.
NoFile ==
    [content |-> "none", last_weight_update_block |-> NoBlock,
     last_processed_block |-> NoBlock, miner_contributions |-> <<>>]

CorruptFile ==
    [content |-> "corrupt", last_weight_update_block |-> NoBlock,
     last_processed_block |-> NoBlock, miner_contributions |-> <<>>]

\* The files an earlier run has left: none, an unreadable one, or a saved
\* state, with or without the entry of a hotkey that has left since.
StateFiles ==
    {NoFile, CorruptFile}
        \cup [content : {"state"},
              last_weight_update_block : Blocks,
              last_processed_block : Blocks,
              miner_contributions :
                 {[hk \in Hotkeys |-> NoContribution],
                  [hk \in Hotkeys |-> IF hk = "hkB"
                                      THEN [total_score |-> 7]
                                      ELSE NoContribution]}]

\* No stamp is followed: the value of last_updated_block where the model does
\* not carry that field of the contributions.
NoStamps == [hk \in Hotkeys |-> NoBlock]

\* The value of cli while tenex.py is not run.
NoCli == [pc |-> "none"]

\* Amounts in wei: a balance or a stake may be nothing, an amount that
\* validate_amount has let through is positive.
Wei == 0..MaxWei

Amounts == 1..MaxWei

\* A local of add_liquidity or remove_liquidity that is not assigned yet, and
\* the exit status of a process that has not ended.
Unset == -1

\* A call main has made: load_state, or save_state with the state it built and
\* whether writing it raised.
MainCall(name, state, raised) == [call |-> name, state |-> state, raised |-> raised]

\* ------------------------------------------------------------------- state

VARIABLES
    chain_block,                    \* the chain's height (subtensor.get_current_block)
    metagraph,                      \* self.metagraph
    contract_available,             \* self.w3 and self.contract (setup_web3)
    weight_update_interval_blocks,  \* self.weight_update_interval_blocks
    last_weight_update_block,       \* self.last_weight_update_block: the watermark
    last_processed_block,           \* self.last_processed_block
    miner_contributions,            \* self.miner_contributions
    pc,                             \* position in run_validator
    current_block,                  \* run_validator's local
    weights,                        \* update_weights' local
    uids,                           \* update_weights' local
    result,                         \* update_weights' local
    \* observers: history of the run, read by no guard and no assignment
    submitted,                      \* set_weights calls of this iteration
    update_called,                  \* update_weights was called in this iteration
    pass_start_watermark,           \* the watermark when this iteration began
    pass_failed,                    \* the last eligible pass ended unconfirmed
    confirmed_heights,              \* pass heights of the confirmed submissions
    interrupted,                    \* KeyboardInterrupt was raised
    \* outside run_validator
    contract_reads,                 \* the contract's answers, where fixed beforehand
    state_file,                     \* tenexium_validator_state.json
    main_trace,                     \* the calls main has made so far
    start_block,                    \* the height the constructor read, where followed
    last_updated_block,             \* the contributions' last_updated_block, where followed
    cli                             \* one run of tenex.py: TenexCLI's call and its locals

vars == <<chain_block, metagraph, contract_available, weight_update_interval_blocks,
          last_weight_update_block, last_processed_block,
          miner_contributions, pc, current_block, weights, uids, result,
          submitted, update_called, pass_start_watermark, pass_failed,
          confirmed_heights, interrupted,
          contract_reads, state_file, main_trace, start_block,
          last_updated_block, cli>>

outer_vars == <<contract_reads, state_file, main_trace, start_block,
                last_updated_block, cli>>

env_vars == <<chain_block, metagraph, contract_available, weight_update_interval_blocks>>

self_vars == <<last_weight_update_block, last_processed_block, miner_contributions>>

local_vars == <<current_block, weights, uids, result>>

observer_vars == <<submitted, update_called, pass_start_watermark, pass_failed,
                   confirmed_heights, interrupted>>

\* --------------------------------------------------------------- operators

RECURSIVE Pow2(_)
Pow2(n) == IF n = 0 THEN 1 ELSE 2 * Pow2(n - 1)

\* Python's float, with a mantissa of MantissaBits bits in place of 53: a
\* value is a whole number of units of 2^-FractionBits, and One is 1.0.
One == Pow2(FractionBits)

\* a / c rounded to the nearest whole number, a tie to the even one.
RoundHalfEven(a, c) ==
    LET fl == a \div c
        r == a % c
    IN IF 2 * r < c THEN fl
       ELSE IF 2 * r > c THEN fl + 1
       ELSE IF fl % 2 = 0 THEN fl ELSE fl + 1

RECURSIVE Exponent(_, _, _)
\* The least j from j0 on with a / b < 2^(MantissaBits + j).
Exponent(a, b, j0) ==
    IF a < b * Pow2(MantissaBits + j0) THEN j0 ELSE Exponent(a, b, j0 + 1)

\* The float nearest to a / b (in units): round-to-nearest, ties to even.
Round(a, b) ==
    IF a = 0 THEN 0
    ELSE LET j == Exponent(a, b, 0)
         IN RoundHalfEven(a, b * Pow2(j)) * Pow2(j)

\* x + y and x / y of two floats.
float_add(x, y) == Round(x + y, 1)

float_div(x, y) == Round(x * One, y)

\* A score as a float. total_score is carried in tenths; the float is taken
\* with the tenth as its 1.0, which scales every score alike.
float_of(total_score) == total_score * One

\* The order in which miner_contributions.values() yields the entries.
KeyOrder == <<"hkA", "hkB", "hkC">>

RECURSIVE SumScores(_, _)
\* sum(c.total_score for c in self.miner_contributions.values()): the entries
\* of the first i keys added up from the left, each addition rounded.
SumScores(mc, i) ==
    IF i = 0 THEN 0
    ELSE LET hk == KeyOrder[i]
             before == SumScores(mc, i - 1)
         IN IF hk \notin DOMAIN mc \/ mc[hk] = NoContribution THEN before
            ELSE float_add(before, float_of(mc[hk].total_score))

RECURSIVE SumWeights(_, _)
\* sum(weights) of the first i weights, added up from the left.
SumWeights(ws, i) == IF i = 0 THEN 0 ELSE float_add(SumWeights(ws, i - 1), ws[i])

\* Lines 217-228 with both reads under one try: after a failed getLpInfo the
\* liquidator score is not read.
total_score_of_one_try(liq, lsc) ==
    IF liq = ReadFailed THEN 0
    ELSE 7 * liq + 3 * (IF lsc = ReadFailed THEN 0 ELSE lsc)

\* total_score = liquidity_score * 0.7 + liquidator_score * 0.3, in tenths;
\* a read that raised leaves its score at 0.0.
total_score_of(liq, lsc) ==
    7 * (IF liq = ReadFailed THEN 0 ELSE liq) + 3 * (IF lsc = ReadFailed THEN 0 ELSE lsc)

\* The loop body of validate_miners, lines 212-244: every hotkey of the list
\* gets a fresh entry, the other entries stay.
contributions_after(mc, hotkeys, liq, lsc) ==
    [hk \in DOMAIN mc |->
        IF \E i \in 1..Len(hotkeys) : hotkeys[i] = hk
        THEN [total_score |-> total_score_of(liq[hk], lsc[hk])]
        ELSE mc[hk]]

\* Line 234 writing the stamp of a new entry only: an entry that is there
\* keeps the height of the pass that made it.
last_updated_after_stale(lub, hotkeys, b) ==
    [hk \in DOMAIN lub |->
        IF (\E i \in 1..Len(hotkeys) : hotkeys[i] = hk) /\ lub[hk] = NoBlock
        THEN b
        ELSE lub[hk]]

\* last_updated_block=current_block, lines 234 and 243: every hotkey of the
\* list is stamped with the height of the pass, the other entries stay.
last_updated_after(lub, hotkeys, b) ==
    [hk \in DOMAIN lub |->
        IF \E i \in 1..Len(hotkeys) : hotkeys[i] = hk
        THEN b
        ELSE lub[hk]]

\* calculate_weights scaling by the largest weight instead of the sum.
calculate_weights_max_normalised(mg, mc) ==
    LET hotkeys == IF mg.ok THEN mg.hotkeys ELSE <<>>
        n_miners == Len(hotkeys)
        total == SumScores(mc, Len(KeyOrder))
        raw == [i \in 1..n_miners |->
                  IF mc[hotkeys[i]] = NoContribution THEN 0
                  ELSE float_div(float_of(mc[hotkeys[i]].total_score), total)]
        s == SumWeights(raw, n_miners)
        m == CHOOSE x \in {raw[i] : i \in 1..n_miners} :
                \A i \in 1..n_miners : x >= raw[i]
    IN IF n_miners = 0 THEN <<>>
       ELSE IF total = 0 THEN [i \in 1..n_miners |-> float_div(One, n_miners * One)]
       ELSE IF s > 0 THEN [i \in 1..n_miners |-> float_div(raw[i], m)]
       ELSE raw

\* calculate_weights giving the whole weight to the first entry when the
\* total score is 0.
calculate_weights_first_takes_all(mg, mc) ==
    LET hotkeys == IF mg.ok THEN mg.hotkeys ELSE <<>>
        n_miners == Len(hotkeys)
        total == SumScores(mc, Len(KeyOrder))
        raw == [i \in 1..n_miners |->
                  IF mc[hotkeys[i]] = NoContribution THEN 0
                  ELSE float_div(float_of(mc[hotkeys[i]].total_score), total)]
        s == SumWeights(raw, n_miners)
    IN IF n_miners = 0 THEN <<>>
       ELSE IF total = 0 THEN [i \in 1..n_miners |-> IF i = 1 THEN One ELSE 0]
       ELSE IF s > 0 THEN [i \in 1..n_miners |-> float_div(raw[i], s)]
       ELSE raw

\* calculate_weights placing each score at its position among the entries of
\* miner_contributions instead of the hotkey's index in the metagraph.
calculate_weights_by_dict_order(mg, mc) ==
    LET hotkeys == IF mg.ok THEN mg.hotkeys ELSE <<>>
        n_miners == Len(hotkeys)
        total == SumScores(mc, Len(KeyOrder))
        raw == [i \in 1..n_miners |->
                  IF mc[KeyOrder[i]] = NoContribution THEN 0
                  ELSE float_div(float_of(mc[KeyOrder[i]].total_score), total)]
        s == SumWeights(raw, n_miners)
    IN IF n_miners = 0 THEN <<>>
       ELSE IF total = 0 THEN [i \in 1..n_miners |-> float_div(One, n_miners * One)]
       ELSE IF s > 0 THEN [i \in 1..n_miners |-> float_div(raw[i], s)]
       ELSE raw

\* calculate_weights leaving uid 0 out of the scoring.
calculate_weights_skip_uid0(mg, mc) ==
    LET hotkeys == IF mg.ok THEN mg.hotkeys ELSE <<>>
        n_miners == Len(hotkeys)
        total == SumScores(mc, Len(KeyOrder))
        raw == [i \in 1..n_miners |->
                  IF i = 1 \/ mc[hotkeys[i]] = NoContribution THEN 0
                  ELSE float_div(float_of(mc[hotkeys[i]].total_score), total)]
        s == SumWeights(raw, n_miners)
    IN IF n_miners = 0 THEN <<>>
       ELSE IF total = 0
            THEN [i \in 1..n_miners |->
                    IF i = 1 THEN 0 ELSE float_div(One, n_miners * One)]
       ELSE IF s > 0 THEN [i \in 1..n_miners |-> float_div(raw[i], s)]
       ELSE raw

\* calculate_weights, lines 270-289: the weight list, as floats.
calculate_weights(mg, mc) ==
    LET hotkeys == IF mg.ok THEN mg.hotkeys ELSE <<>>
        n_miners == Len(hotkeys)
        total == SumScores(mc, Len(KeyOrder))
        raw == [i \in 1..n_miners |->
                  IF mc[hotkeys[i]] = NoContribution THEN 0
                  ELSE float_div(float_of(mc[hotkeys[i]].total_score), total)]
        s == SumWeights(raw, n_miners)
    IN IF n_miners = 0 THEN <<>>
       ELSE IF total = 0 THEN [i \in 1..n_miners |-> float_div(One, n_miners * One)]
       ELSE IF s > 0 THEN [i \in 1..n_miners |-> float_div(raw[i], s)]
       ELSE raw

\* uids = list(range(n_miners + 1)): one uid too many.
uid_list_inclusive(n_miners) == [i \in 1..(n_miners + 1) |-> i - 1]

\* uids = list(range(n_miners))
uid_list(n_miners) == [i \in 1..n_miners |-> i - 1]

\* should_update_weights with > for >=: one block late.
should_update_weights_strict(b) ==
    (b - last_weight_update_block) > weight_update_interval_blocks

\* should_update_weights measuring from the last processed block instead of
\* the watermark.
should_update_weights_since_processed(b) ==
    (b - last_processed_block) >= weight_update_interval_blocks

\* should_update_weights measuring the distance from the watermark in either
\* direction.
should_update_weights_either_way(b) ==
    (IF b >= last_weight_update_block
     THEN b - last_weight_update_block
     ELSE last_weight_update_block - b) >= weight_update_interval_blocks

\* should_update_weights
should_update_weights(b) ==
    (b - last_weight_update_block) >= weight_update_interval_blocks

\* update_weights taking the height at which the submission completed.
watermark_after_completion(r, b) ==
    IF Truthy(r) THEN chain_block ELSE last_weight_update_block

\* Lines 262-264 without the assignment: the watermark is left as it was.
watermark_after_never(r, b) == last_weight_update_block

\* The watermark update_weights leaves after `if result:`.
watermark_after(r, b) == IF Truthy(r) THEN b ELSE last_weight_update_block

\* ----------------------------------------------------------------- initial

\* The state in which main enters run_validator. The constructor has set both
\* block fields to the one height it read; load_state has left them, or has
\* put one saved height in the place of both, and may have added the entry of
\* a hotkey that has left the subnet since. The chain has moved on meanwhile,
\* so chain_block is any height.
Init ==
    /\ chain_block \in Blocks
    /\ metagraph \in {m \in Metagraphs : m.ok}
    /\ contract_available \in BOOLEAN
    /\ weight_update_interval_blocks \in Intervals
    /\ last_weight_update_block \in Blocks
    /\ last_processed_block = last_weight_update_block
    /\ miner_contributions \in
         {[hk \in Hotkeys |-> NoContribution],
          [hk \in Hotkeys |-> IF hk = "hkB"
                              THEN [total_score |-> 7]
                              ELSE NoContribution]}
    /\ pc = "read"
    /\ current_block = NoBlock
    /\ weights = <<>>
    /\ uids = <<>>
    /\ result = NoResult
    /\ submitted = <<>>
    /\ update_called = FALSE
    /\ pass_start_watermark = last_weight_update_block
    /\ pass_failed = FALSE
    /\ confirmed_heights = {}
    /\ interrupted = FALSE
    /\ contract_reads = [hk \in Hotkeys |-> NoReads]
    /\ state_file = NoFile
    /\ main_trace = <<MainCall("load_state", NoFile, FALSE)>>
    /\ start_block = NoBlock
    /\ last_updated_block = NoStamps
    /\ cli = NoCli

\* ----------------------------------------------------------------- actions

\* line 136, the read returns.
get_current_block ==
    /\ pc = "read"
    /\ current_block' = chain_block
    /\ pc' = "sync"
    /\ UNCHANGED <<outer_vars, env_vars, self_vars, weights, uids, result, observer_vars>>

\* The handler of lines 159-161 leaving the loop instead of sleeping.
get_current_block_raises_breaks ==
    /\ pc = "read"
    /\ pc' = "stopped"
    /\ UNCHANGED <<outer_vars, env_vars, self_vars, local_vars, observer_vars>>

\* line 136 raises: lines 159-160.
get_current_block_raises ==
    /\ pc = "read"
    /\ pc' = "sleep"
    /\ UNCHANGED <<outer_vars, env_vars, self_vars, local_vars, observer_vars>>

\* line 161
sleep ==
    /\ pc = "sleep"
    /\ pc' = "read"
    /\ UNCHANGED <<outer_vars, env_vars, self_vars, local_vars, observer_vars>>

\* lines 138-141: the sync refreshes the metagraph, or raises and is logged.
metagraph_sync ==
    /\ pc = "sync"
    /\ \/ metagraph' \in Metagraphs
       \/ UNCHANGED metagraph
    /\ pc' = "gather"
    /\ UNCHANGED <<outer_vars, chain_block, contract_available, weight_update_interval_blocks,
                   self_vars, local_vars, observer_vars>>

\* lines 144, 163-190. It assigns self.protocol_metrics only, which the loop
\* reads in its log line alone; the model does not carry it.
gather_protocol_metrics ==
    /\ pc = "gather"
    /\ pc' = "validate"
    /\ UNCHANGED <<outer_vars, env_vars, self_vars, local_vars, observer_vars>>

\* lines 147, 202-244. With hotkeys unreadable the list comes from the axons
\* or is empty. A hotkey's two reads return or raise one by one; without the
\* contract neither is made.
validate_miners ==
    /\ pc = "validate"
    /\ \E hotkeys \in IF metagraph.ok THEN {metagraph.hotkeys}
                      ELSE {metagraph.hotkeys, <<>>} :
       \E liq \in [Hotkeys -> Stakes \cup {ReadFailed}],
          lsc \in [Hotkeys -> LiquidatorScores \cup {ReadFailed}] :
          /\ \A hk \in Hotkeys :
                ~contract_available \/ (\A i \in 1..Len(hotkeys) : hotkeys[i] # hk)
                   => liq[hk] = ReadFailed /\ lsc[hk] = ReadFailed
          /\ miner_contributions' =
                contributions_after(miner_contributions, hotkeys, liq, lsc)
    /\ pc' = "check"
    /\ UNCHANGED <<outer_vars, env_vars, last_weight_update_block, last_processed_block,
                   local_vars, observer_vars>>

\* lines 150-151
check_cadence ==
    /\ pc = "check"
    /\ IF should_update_weights(current_block)
       THEN pc' = "calc" /\ update_called' = TRUE
       ELSE pc' = "log" /\ UNCHANGED update_called
    /\ pass_failed' = FALSE
    /\ UNCHANGED <<outer_vars, env_vars, self_vars, local_vars, submitted, pass_start_watermark,
                   confirmed_heights, interrupted>>

\* lines 252-254; len(self.metagraph.hotkeys) raises when the attribute cannot
\* be read: lines 267-268.
update_weights_calculate ==
    /\ pc = "calc"
    /\ weights' = calculate_weights(metagraph, miner_contributions)
    /\ IF metagraph.ok
       THEN /\ uids' = uid_list(Len(metagraph.hotkeys))
            /\ pc' = "submit"
            /\ UNCHANGED pass_failed
       ELSE /\ pc' = "log"
            /\ pass_failed' = TRUE
            /\ UNCHANGED uids
    /\ UNCHANGED <<outer_vars, env_vars, self_vars, current_block, result, submitted,
                   update_called, pass_start_watermark, confirmed_heights,
                   interrupted>>

\* The call of lines 255-261 made again after the first one returned.
set_weights_twice ==
    /\ pc = "submit"
    /\ \E r \in SetWeightsResults : result' = r
    /\ submitted' = Append(Append(submitted, [uids |-> uids, weights |-> weights]),
                           [uids |-> uids, weights |-> weights])
    /\ pc' = "result"
    /\ UNCHANGED <<outer_vars, env_vars, self_vars, current_block, weights, uids,
                   update_called, pass_start_watermark, pass_failed,
                   confirmed_heights, interrupted>>

\* lines 255-261, the call returns.
set_weights ==
    /\ pc = "submit"
    /\ \E r \in SetWeightsResults : result' = r
    /\ submitted' = Append(submitted, [uids |-> uids, weights |-> weights])
    /\ pc' = "result"
    /\ UNCHANGED <<outer_vars, env_vars, self_vars, current_block, weights, uids,
                   update_called, pass_start_watermark, pass_failed,
                   confirmed_heights, interrupted>>

\* lines 255-261, the call raises: lines 267-268.
set_weights_raises ==
    /\ pc = "submit"
    /\ submitted' = Append(submitted, [uids |-> uids, weights |-> weights])
    /\ pc' = "log"
    /\ pass_failed' = TRUE
    /\ UNCHANGED <<outer_vars, env_vars, self_vars, local_vars, update_called,
                   pass_start_watermark, confirmed_heights, interrupted>>

\* lines 262-266 with a second attempt: a submission that reported failure is
\* made once more before the pass ends.
update_weights_result_retries ==
    /\ pc = "result"
    /\ last_weight_update_block' = watermark_after(result, current_block)
    /\ pc' = IF ~Truthy(result) /\ Len(submitted) < 2 THEN "submit" ELSE "log"
    /\ pass_failed' = ~result.success
    /\ confirmed_heights' = IF result.success
                            THEN confirmed_heights \cup {current_block}
                            ELSE confirmed_heights
    /\ UNCHANGED <<outer_vars, env_vars, last_processed_block, miner_contributions, local_vars,
                   submitted, update_called, pass_start_watermark, interrupted>>

\* lines 262-266
update_weights_result ==
    /\ pc = "result"
    /\ last_weight_update_block' = watermark_after(result, current_block)
    /\ pc' = "log"
    /\ pass_failed' = ~result.success
    /\ confirmed_heights' = IF result.success
                            THEN confirmed_heights \cup {current_block}
                            ELSE confirmed_heights
    /\ UNCHANGED <<outer_vars, env_vars, last_processed_block, miner_contributions, local_vars,
                   submitted, update_called, pass_start_watermark, interrupted>>

\* lines 153-154, the end of the iteration: update_weights' locals are gone.
log_validation_status ==
    /\ pc = "log"
    /\ last_processed_block' = current_block
    /\ pc' = "read"
    /\ weights' = <<>>
    /\ uids' = <<>>
    /\ result' = NoResult
    /\ submitted' = <<>>
    /\ update_called' = FALSE
    /\ pass_start_watermark' = last_weight_update_block
    /\ UNCHANGED <<outer_vars, env_vars, last_weight_update_block, miner_contributions,
                   current_block, pass_failed, confirmed_heights, interrupted>>

\* lines 156-158: KeyboardInterrupt inside the loop body's try ends the loop;
\* raised in the handler's sleep it leaves run_validator as well.
keyboard_interrupt ==
    /\ pc \notin {"load", "stopped", "done"}
    /\ pc' = "stopped"
    /\ interrupted' = TRUE
    /\ UNCHANGED <<outer_vars, env_vars, self_vars, local_vars, submitted, update_called,
                   pass_start_watermark, pass_failed, confirmed_heights>>

\* The chain grows.
chain_advances ==
    /\ chain_block < MaxBlock
    /\ chain_block' = chain_block + 1
    /\ UNCHANGED <<outer_vars, metagraph, contract_available, weight_update_interval_blocks,
                   self_vars, pc, local_vars, observer_vars>>

\* The node that answers lags behind the one that answered before.
chain_regresses ==
    /\ chain_block > 0
    /\ chain_block' = chain_block - 1
    /\ UNCHANGED <<outer_vars, metagraph, contract_available, weight_update_interval_blocks,
                   self_vars, pc, local_vars, observer_vars>>

Next ==
    \/ get_current_block
    \/ get_current_block_raises
    \/ sleep
    \/ metagraph_sync
    \/ gather_protocol_metrics
    \/ validate_miners
    \/ check_cadence
    \/ update_weights_calculate
    \/ set_weights
    \/ set_weights_raises
    \/ update_weights_result
    \/ log_validation_status
    \/ keyboard_interrupt
    \/ chain_advances
    \/ chain_regresses

Spec == Init /\ [][Next]_vars

\* ----------------------------------------------------------------- main
\* main: the constructor, load_state, run_validator, and save_state in the
\* finally clause. The interval is one block and the contract is not
\* connected; the state file is whatever an earlier run has left.

\* The state save_state builds with the watermark and the processed block in
\* each other's place.
saved_state_swapped(wm, lp, mc) ==
    [content |-> "state", last_weight_update_block |-> lp,
     last_processed_block |-> wm, miner_contributions |-> mc]

\* The state save_state builds, lines 302-321.
saved_state(wm, lp, mc) ==
    [content |-> "state", last_weight_update_block |-> wm,
     last_processed_block |-> lp, miner_contributions |-> mc]

\* The state after the constructor, lines 38-59, 347.
InitMain ==
    /\ chain_block \in Blocks
    /\ metagraph \in {m \in Metagraphs : m.ok}
    /\ contract_available = FALSE
    /\ weight_update_interval_blocks = 1
    /\ last_processed_block = chain_block
    /\ last_weight_update_block = last_processed_block
    /\ miner_contributions = [hk \in Hotkeys |-> NoContribution]
    /\ pc = "load"
    /\ current_block = NoBlock
    /\ weights = <<>>
    /\ uids = <<>>
    /\ result = NoResult
    /\ submitted = <<>>
    /\ update_called = FALSE
    /\ pass_start_watermark = last_weight_update_block
    /\ pass_failed = FALSE
    /\ confirmed_heights = {}
    /\ interrupted = FALSE
    /\ contract_reads = [hk \in Hotkeys |-> NoReads]
    /\ state_file \in StateFiles
    /\ main_trace = <<>>
    /\ start_block = NoBlock
    /\ last_updated_block = NoStamps
    /\ cli = NoCli

\* load_state, lines 328-342, then line 350 enters run_validator. A file that
\* json.load cannot read raises, which is logged; no file is no change. With
\* a saved state the entries are put back first (lines 334-335); lines 338
\* and 339 each read the chain's height for the default of state.get before
\* they assign, and a read that raises ends load_state in its handler with
\* the fields not yet assigned left as the constructor set them.
load_state ==
    /\ pc = "load"
    /\ IF state_file.content = "state"
       THEN /\ miner_contributions' =
                 [hk \in Hotkeys |->
                    IF state_file.miner_contributions[hk] # NoContribution
                    THEN state_file.miner_contributions[hk]
                    ELSE miner_contributions[hk]]
            /\ \/ /\ last_weight_update_block' = state_file.last_weight_update_block
                  /\ last_processed_block' = state_file.last_processed_block
               \/ /\ last_weight_update_block' = state_file.last_weight_update_block
                  /\ UNCHANGED last_processed_block
               \/ UNCHANGED <<last_weight_update_block, last_processed_block>>
       ELSE UNCHANGED self_vars
    /\ pass_start_watermark' = last_weight_update_block'
    /\ main_trace' = Append(main_trace, MainCall("load_state", NoFile, FALSE))
    /\ pc' = "read"
    /\ UNCHANGED <<env_vars, local_vars, submitted, update_called, pass_failed,
                   confirmed_heights, interrupted, contract_reads, state_file,
                   start_block, last_updated_block, cli>>

\* save_state, lines 300-326, called from main's finally clause once
\* run_validator has ended. Opening or writing the file may raise, which is
\* logged: the file is then as it was, or cut short.
save_state ==
    /\ pc = "stopped"
    /\ LET state == saved_state(last_weight_update_block, last_processed_block,
                                miner_contributions)
       IN \/ /\ state_file' = state
             /\ main_trace' = Append(main_trace, MainCall("save_state", state, FALSE))
          \/ /\ state_file' \in {state_file, CorruptFile}
             /\ main_trace' = Append(main_trace, MainCall("save_state", state, TRUE))
    /\ pc' = "done"
    /\ UNCHANGED <<env_vars, self_vars, local_vars, observer_vars, contract_reads,
                   start_block, last_updated_block, cli>>

NextMain ==
    \/ load_state
    \/ Next
    \/ save_state

SpecMain == InitMain /\ [][NextMain]_vars

\* ------------------------------------------------------------- a first start
\* main on a machine that holds no state file, with any interval.

\* The constructor with line 57 setting the watermark to 0 instead of the
\* height it has just read.
InitFresh_watermark_zero ==
    /\ chain_block \in Blocks
    /\ metagraph \in {m \in Metagraphs : m.ok}
    /\ contract_available = FALSE
    /\ weight_update_interval_blocks \in Intervals
    /\ last_processed_block = chain_block
    /\ last_weight_update_block = 0
    /\ miner_contributions = [hk \in Hotkeys |-> NoContribution]
    /\ pc = "load"
    /\ current_block = NoBlock
    /\ weights = <<>>
    /\ uids = <<>>
    /\ result = NoResult
    /\ submitted = <<>>
    /\ update_called = FALSE
    /\ pass_start_watermark = last_weight_update_block
    /\ pass_failed = FALSE
    /\ confirmed_heights = {}
    /\ interrupted = FALSE
    /\ contract_reads = [hk \in Hotkeys |-> NoReads]
    /\ state_file = NoFile
    /\ main_trace = <<>>
    /\ start_block = chain_block
    /\ last_updated_block = NoStamps
    /\ cli = NoCli

\* The state after the constructor, lines 38-59, 347, with no state file.
InitFresh ==
    /\ chain_block \in Blocks
    /\ metagraph \in {m \in Metagraphs : m.ok}
    /\ contract_available = FALSE
    /\ weight_update_interval_blocks \in Intervals
    /\ last_processed_block = chain_block
    /\ last_weight_update_block = last_processed_block
    /\ miner_contributions = [hk \in Hotkeys |-> NoContribution]
    /\ pc = "load"
    /\ current_block = NoBlock
    /\ weights = <<>>
    /\ uids = <<>>
    /\ result = NoResult
    /\ submitted = <<>>
    /\ update_called = FALSE
    /\ pass_start_watermark = last_weight_update_block
    /\ pass_failed = FALSE
    /\ confirmed_heights = {}
    /\ interrupted = FALSE
    /\ contract_reads = [hk \in Hotkeys |-> NoReads]
    /\ state_file = NoFile
    /\ main_trace = <<>>
    /\ start_block = chain_block
    /\ last_updated_block = NoStamps
    /\ cli = NoCli

SpecFresh == InitFresh /\ [][NextMain]_vars

\* ------------------------------------------------- the loop with the stamps
\* run_validator with the contract connected and an interval of one block,
\* each contribution carrying the last_updated_block that validate_miners
\* writes.

InitStamps ==
    /\ chain_block \in Blocks
    /\ metagraph \in {m \in Metagraphs : m.ok}
    /\ contract_available = TRUE
    /\ weight_update_interval_blocks = 1
    /\ last_weight_update_block \in Blocks
    /\ last_processed_block = last_weight_update_block
    /\ miner_contributions = [hk \in Hotkeys |-> NoContribution]
    /\ pc = "read"
    /\ current_block = NoBlock
    /\ weights = <<>>
    /\ uids = <<>>
    /\ result = NoResult
    /\ submitted = <<>>
    /\ update_called = FALSE
    /\ pass_start_watermark = last_weight_update_block
    /\ pass_failed = FALSE
    /\ confirmed_heights = {}
    /\ interrupted = FALSE
    /\ contract_reads = [hk \in Hotkeys |-> NoReads]
    /\ state_file = NoFile
    /\ main_trace = <<MainCall("load_state", NoFile, FALSE)>>
    /\ start_block = NoBlock
    /\ last_updated_block = NoStamps
    /\ cli = NoCli

\* validate_miners, lines 147, 202-244, with line 234 and line 243: both
\* branches of the loop body stamp the entry with current_block.
validate_miners_stamped ==
    /\ pc = "validate"
    /\ \E hotkeys \in IF metagraph.ok THEN {metagraph.hotkeys}
                      ELSE {metagraph.hotkeys, <<>>} :
       \E liq \in [Hotkeys -> Stakes \cup {ReadFailed}],
          lsc \in [Hotkeys -> LiquidatorScores \cup {ReadFailed}] :
          /\ \A hk \in Hotkeys :
                ~contract_available \/ (\A i \in 1..Len(hotkeys) : hotkeys[i] # hk)
                   => liq[hk] = ReadFailed /\ lsc[hk] = ReadFailed
          /\ miner_contributions' =
                contributions_after(miner_contributions, hotkeys, liq, lsc)
          /\ last_updated_block' =
                last_updated_after(last_updated_block, hotkeys, current_block)
    /\ pc' = "check"
    /\ UNCHANGED <<contract_reads, state_file, main_trace, start_block, cli, env_vars,
                   last_weight_update_block, last_processed_block,
                   local_vars, observer_vars>>

NextStamps ==
    \/ get_current_block
    \/ get_current_block_raises
    \/ sleep
    \/ metagraph_sync
    \/ gather_protocol_metrics
    \/ validate_miners_stamped
    \/ check_cadence
    \/ update_weights_calculate
    \/ set_weights
    \/ set_weights_raises
    \/ update_weights_result
    \/ log_validation_status
    \/ keyboard_interrupt
    \/ chain_advances
    \/ chain_regresses

SpecStamps == InitStamps /\ [][NextStamps]_vars

\* ------------------------------------- validate_miners and calculate_weights
\* One call of validate_miners followed by one call of calculate_weights, on
\* a metagraph of up to three hotkeys in any order, with the contract's
\* answers fixed beforehand and an entry or none left by earlier passes.

InitWeights ==
    /\ metagraph \in {[ok |-> o, hotkeys |-> l] : o \in BOOLEAN, l \in ManyHotkeyLists}
    /\ contract_available \in BOOLEAN
    /\ contract_reads \in
         {r \in [ManyHotkeys -> [liq : Stakes \cup {ReadFailed},
                                 lsc : ManyLiquidatorScores \cup {ReadFailed}]] :
             \A hk \in ManyHotkeys :
                ~contract_available
                   \/ (\A i \in 1..Len(metagraph.hotkeys) : metagraph.hotkeys[i] # hk)
                => r[hk] = NoReads}
    /\ miner_contributions \in
         {[hk \in ManyHotkeys |-> NoContribution],
          [hk \in ManyHotkeys |-> [total_score |-> 0]],
          [hk \in ManyHotkeys |-> IF hk = "hkC"
                                  THEN [total_score |-> 7]
                                  ELSE NoContribution]}
    /\ pc = "validate"
    /\ chain_block = 0
    /\ weight_update_interval_blocks = 0
    /\ last_weight_update_block = 0
    /\ last_processed_block = 0
    /\ current_block = 0
    /\ weights = <<>>
    /\ uids = <<>>
    /\ result = NoResult
    /\ submitted = <<>>
    /\ update_called = FALSE
    /\ pass_start_watermark = 0
    /\ pass_failed = FALSE
    /\ confirmed_heights = {}
    /\ interrupted = FALSE
    /\ state_file = NoFile
    /\ main_trace = <<>>
    /\ start_block = NoBlock
    /\ last_updated_block = NoStamps
    /\ cli = NoCli

\* validate_miners, lines 202-244, with the reads answered by contract_reads.
apply_validate_miners ==
    /\ pc = "validate"
    /\ \E hotkeys \in IF metagraph.ok THEN {metagraph.hotkeys}
                      ELSE {metagraph.hotkeys, <<>>} :
          miner_contributions' =
             contributions_after(miner_contributions, hotkeys,
                                 [hk \in ManyHotkeys |-> contract_reads[hk].liq],
                                 [hk \in ManyHotkeys |-> contract_reads[hk].lsc])
    /\ pc' = "calc"
    /\ UNCHANGED <<outer_vars, env_vars, last_weight_update_block,
                   last_processed_block, local_vars, observer_vars>>

\* calculate_weights, lines 270-289.
apply_calculate_weights ==
    /\ pc = "calc"
    /\ weights' = calculate_weights(metagraph, miner_contributions)
    /\ pc' = "done"
    /\ UNCHANGED <<outer_vars, env_vars, self_vars, current_block, uids, result,
                   observer_vars>>

NextWeights ==
    \/ apply_validate_miners
    \/ apply_calculate_weights

SpecWeights == InitWeights /\ [][NextWeights]_vars

\* ------------------------------------------------------------ the fair loop
\* run_validator under the conditions of a healthy deployment: the chain only
\* grows, the event loop runs every step that is ready, a block read that is
\* tried again and again returns at some time, and so does a set_weights call
\* that reports success. Nothing is assumed about the metagraph, about a
\* raising call or about the stop signal. The contract is not connected.

InitLive ==
    /\ chain_block \in Blocks
    /\ metagraph \in {m \in Metagraphs : m.ok}
    /\ contract_available = FALSE
    /\ weight_update_interval_blocks \in Intervals
    /\ last_weight_update_block \in Blocks
    /\ last_processed_block = last_weight_update_block
    /\ miner_contributions = [hk \in Hotkeys |-> NoContribution]
    /\ pc = "read"
    /\ current_block = NoBlock
    /\ weights = <<>>
    /\ uids = <<>>
    /\ result = NoResult
    /\ submitted = <<>>
    /\ update_called = FALSE
    /\ pass_start_watermark = last_weight_update_block
    /\ pass_failed = FALSE
    /\ confirmed_heights = {}
    /\ interrupted = FALSE
    /\ contract_reads = [hk \in Hotkeys |-> NoReads]
    /\ state_file = NoFile
    /\ main_trace = <<MainCall("load_state", NoFile, FALSE)>>
    /\ start_block = NoBlock
    /\ last_updated_block = NoStamps
    /\ cli = NoCli

\* lines 255-261, the call returns a result that reports success.
set_weights_succeeds == set_weights /\ result'.success

\* One step of the loop body itself, lines 134-161.
LoopStep ==
    \/ get_current_block
    \/ get_current_block_raises
    \/ sleep
    \/ metagraph_sync
    \/ gather_protocol_metrics
    \/ validate_miners
    \/ check_cadence
    \/ update_weights_calculate
    \/ set_weights
    \/ set_weights_raises
    \/ update_weights_result
    \/ log_validation_status

NextLive ==
    \/ LoopStep
    \/ keyboard_interrupt
    \/ chain_advances

\* asyncio.run drives the one coroutine: a step that is ready is taken.
LoopFairness ==
    /\ WF_vars(sleep)
    /\ WF_vars(metagraph_sync)
    /\ WF_vars(gather_protocol_metrics)
    /\ WF_vars(validate_miners)
    /\ WF_vars(check_cadence)
    /\ WF_vars(update_weights_calculate)
    /\ WF_vars(set_weights \/ set_weights_raises)
    /\ WF_vars(update_weights_result)
    /\ WF_vars(log_validation_status)
    /\ WF_vars(get_current_block \/ get_current_block_raises)

\* The chain grows; reads and submissions succeed again and again.
EnvironmentFairness ==
    /\ WF_vars(chain_advances)
    /\ SF_vars(get_current_block)
    /\ SF_vars(set_weights_succeeds)

SpecLive == InitLive /\ [][NextLive]_vars /\ LoopFairness /\ EnvironmentFairness

\* ------------------------------------------------------------------ tenex.py
\* One run of tenex.py addliq or removeliq from the call of add_liquidity or
\* remove_liquidity on, validate_amount having let the amount through. The two
\* functions differ in the contract function they call, in the read of the
\* account's balance, which only add_liquidity makes, and in their check.

validator_vars == <<env_vars, self_vars, pc, local_vars, observer_vars,
                    contract_reads, state_file, main_trace, start_block,
                    last_updated_block>>

\* Line 90 with the comparison turned round.
insufficient_balance_inverted(balance, amount_wei) == balance > amount_wei

\* tenex.py line 90
insufficient_balance(balance, amount_wei) == balance < amount_wei

\* Line 155 with the comparison turned round.
insufficient_stake_inverted(stake, amount_wei) == stake > amount_wei

\* tenex.py line 155
insufficient_stake(stake, amount_wei) == stake < amount_wei

\* The except clause, lines 131-133 and 193-195: print, sys.exit(1).
exited_from(c, where) ==
    [c EXCEPT !.pc = "exited", !.exit_status = 1, !.raised_at = where]

InitCli ==
    /\ cli \in [op : {"add_liquidity", "remove_liquidity"},
                pc : {"setup"},
                amount_wei : Amounts,
                balance : {Unset},
                lp_info : {Unset},
                checked : {FALSE},
                signed : {FALSE},
                sent : {0},
                exit_status : {Unset},
                raised_at : {"none"}]
    /\ chain_block = 0
    /\ metagraph = [ok |-> TRUE, hotkeys |-> <<>>]
    /\ contract_available = FALSE
    /\ weight_update_interval_blocks = 0
    /\ last_weight_update_block = 0
    /\ last_processed_block = 0
    /\ miner_contributions = [hk \in Hotkeys |-> NoContribution]
    /\ pc = "none"
    /\ current_block = NoBlock
    /\ weights = <<>>
    /\ uids = <<>>
    /\ result = NoResult
    /\ submitted = <<>>
    /\ update_called = FALSE
    /\ pass_start_watermark = 0
    /\ pass_failed = FALSE
    /\ confirmed_heights = {}
    /\ interrupted = FALSE
    /\ contract_reads = [hk \in Hotkeys |-> NoReads]
    /\ state_file = NoFile
    /\ main_trace = <<>>
    /\ start_block = NoBlock
    /\ last_updated_block = NoStamps

\* lines 69-72 and 138-141: the signer, the proxy address, the contract and
\* the amount in wei.
get_signer_for_miner ==
    /\ cli.pc = "setup"
    /\ cli' = [cli EXCEPT !.pc = IF cli.op = "add_liquidity" THEN "balance"
                                 ELSE "lp_info"]
    /\ UNCHANGED validator_vars

\* line 82, add_liquidity only
get_balance ==
    /\ cli.pc = "balance"
    /\ \E b \in Wei : cli' = [cli EXCEPT !.balance = b, !.pc = "lp_info"]
    /\ UNCHANGED validator_vars

\* lines 87 and 151: lp_info[0] is the stake.
liquidityProviders ==
    /\ cli.pc = "lp_info"
    /\ \E stake \in Wei : cli' = [cli EXCEPT !.lp_info = stake, !.pc = "check"]
    /\ UNCHANGED validator_vars

\* lines 90-91 and 155-156: the ValueError lands in the except clause.
check_sufficient ==
    /\ cli.pc = "check"
    /\ cli' = IF IF cli.op = "add_liquidity"
                 THEN insufficient_balance(cli.balance, cli.amount_wei)
                 ELSE insufficient_stake(cli.lp_info, cli.amount_wei)
              THEN exited_from(cli, "check")
              ELSE [cli EXCEPT !.checked = TRUE, !.pc = "build"]
    /\ UNCHANGED validator_vars

\* lines 94-112 and 159-175: nonce, gas price, estimate_gas, build_transaction
build_transaction ==
    /\ cli.pc = "build"
    /\ cli' = [cli EXCEPT !.pc = "sign"]
    /\ UNCHANGED validator_vars

\* lines 115 and 178
sign_transaction ==
    /\ cli.pc = "sign"
    /\ cli' = [cli EXCEPT !.signed = TRUE, !.pc = "send"]
    /\ UNCHANGED validator_vars

\* lines 116 and 179
send_raw_transaction ==
    /\ cli.pc = "send"
    /\ cli' = [cli EXCEPT !.sent = @ + 1, !.pc = "receipt"]
    /\ UNCHANGED validator_vars

\* lines 122 and 185
wait_for_transaction_receipt ==
    /\ cli.pc = "receipt"
    /\ cli' = [cli EXCEPT !.pc = "stats"]
    /\ UNCHANGED validator_vars

\* lines 129 and 192, 197-216: show_liquidity_stats catches what its reads
\* raise; the function returns, main returns, the process ends with status 0.
show_liquidity_stats ==
    /\ cli.pc = "stats"
    /\ cli' = [cli EXCEPT !.pc = "returned", !.exit_status = 0]
    /\ UNCHANGED validator_vars

\* Any call inside the try raises an Exception: lines 131-133 and 193-195. A
\* send that raises has sent nothing.
call_raises ==
    /\ cli.pc \in {"setup", "balance", "lp_info", "build", "sign", "send", "receipt"}
    /\ cli' = exited_from(cli, cli.pc)
    /\ UNCHANGED validator_vars

NextCli ==
    \/ get_signer_for_miner
    \/ get_balance
    \/ liquidityProviders
    \/ check_sufficient
    \/ build_transaction
    \/ sign_transaction
    \/ send_raw_transaction
    \/ wait_for_transaction_receipt
    \/ show_liquidity_stats
    \/ call_raises

SpecCli == InitCli /\ [][NextCli]_vars

\* ------------------------------------------------------------------ claims

Abs(x) == IF x < 0 THEN -x ELSE x

watermark == last_weight_update_block

interval == weight_update_interval_blocks

\* set_weights returned in this pass and reported failure.
ReportedFailure == result # NoResult /\ ~result.success

\* C1: the watermark is never advanced when the weight submission reports
\* failure: a pass whose set_weights reported failure ends with the watermark
\* it began with.
C1_FailureKeepsWatermark ==
    pc = "log" /\ ReportedFailure => watermark = pass_start_watermark

\* C2: on a successful submission the watermark is the block height read at
\* the start of that iteration, whatever the chain's height is by then.
C2_WatermarkIsPassStartHeight ==
    pc = "log" /\ result.success => watermark = current_block

\* C2's case: a confirmed pass that moved the watermark, with the chain ahead
\* of the height the pass started at.
C2_Witness ==
    /\ pc = "log"
    /\ result.success
    /\ watermark = current_block
    /\ pass_start_watermark < current_block
    /\ chain_block > current_block

\* C3: an iteration whose block read succeeded calls update_weights if and
\* only if current_block - watermark >= interval; otherwise it ends without a
\* set_weights call and with the watermark unchanged.
C3_UpdateIffCadenceReached ==
    /\ pc \in {"calc", "submit", "result", "log"}
          => (update_called <=> current_block - pass_start_watermark >= interval)
    /\ ~update_called
          => /\ submitted = <<>>
             /\ watermark = pass_start_watermark
             /\ pc \notin {"calc", "submit", "result"}

\* C3's case: right after a confirmed submission at a height, an iteration at
\* that same height has ended without calling update_weights.
C3_Witness ==
    /\ pc = "log"
    /\ ~update_called
    /\ interval = 1
    /\ current_block = watermark
    /\ current_block \in confirmed_heights

\* C4: during run_validator the watermark is assigned only in update_weights
\* after a confirmed successful submission.
C4_OnlyConfirmedSuccessAssigns ==
    [][(watermark' # watermark) => (pc = "result" /\ result.success)]_vars

\* C5: an exception or a failure at any stage of a pass is caught: the loop
\* ends only by the stop signal, and a pass that failed (update_weights caught
\* an exception, or set_weights reported failure) leaves the watermark as it
\* was.
C5_FailureIsCaught ==
    /\ pc = "stopped" => interrupted
    /\ pc = "log" /\ pass_failed => watermark = pass_start_watermark

\* C6: when the block read raises, the loop goes on: it sleeps and returns to
\* the read, with last_weight_update_block and last_processed_block unchanged
\* and no submission attempted, however often the read fails in a row.
C6_ReadFailureReturnsToRead ==
    /\ [](pc = "stopped" => interrupted)
    /\ [](pc = "sleep" => submitted = <<>> /\ ~update_called)
    /\ [][(pc \in {"read", "sleep"} /\ pc' \in {"read", "sleep"})
            => (last_weight_update_block' = last_weight_update_block
                  /\ last_processed_block' = last_processed_block)]_vars
    /\ [][(pc = "sleep" /\ pc' # "sleep") => (pc' = "read" \/ interrupted')]_vars
    /\ [][(pc = "read" /\ pc' \notin {"read", "sync"})
            => (pc' = "sleep" \/ interrupted')]_vars

\* C6's case: a read failed after an earlier iteration had advanced the
\* watermark.
C6_Witness ==
    /\ pc = "sleep"
    /\ confirmed_heights # {}
    /\ last_processed_block = last_weight_update_block

\* C7: after an eligible pass that ended without a confirmed submission, the
\* next iteration whose read succeeds with a height not lower than that pass's
\* is eligible again.
C7_FailedPassIsRetried ==
    pc = "check" /\ pass_failed /\ current_block >= last_processed_block
        => current_block - watermark >= interval

\* C8: the pass heights of any two successful submissions of one run differ by
\* at least weight_update_interval_blocks.
C8_OncePerCadenceWindow ==
    pc = "result" /\ result.success
        => \A h \in confirmed_heights : Abs(current_block - h) >= interval

\* C8's case: a second confirmed submission, under an interval of one block.
C8_Witness ==
    /\ pc = "result"
    /\ result.success
    /\ confirmed_heights # {}
    /\ interval = 1

\* C9: between any two consecutive block reads there is a sleep: the loop
\* comes back to the read only from the sleep.
C9_SleepBeforeEveryRead ==
    [][(pc' = "read" /\ pc # "read") => (pc = "sleep")]_vars

\* C10 as stated: every call of update_weights makes exactly one set_weights
\* call, an iteration without it none.
C10_ExactlyOneTransaction ==
    pc = "log" => Len(submitted) = (IF update_called THEN 1 ELSE 0)

\* C10 amended: an iteration makes at most one set_weights call: none without
\* update_weights, none when update_weights cannot read the metagraph's
\* hotkeys, and otherwise exactly one, carrying uids 0..n-1 and the weight list
\* of calculate_weights.
C10_AtMostOneTransaction ==
    /\ Len(submitted) <= 1
    /\ pc = "log" /\ ~update_called => submitted = <<>>
    /\ pc = "log" /\ update_called /\ ~metagraph.ok => submitted = <<>>
    /\ pc = "log" /\ update_called /\ metagraph.ok
          => submitted =
                <<[uids |-> uid_list(Len(metagraph.hotkeys)),
                   weights |-> calculate_weights(metagraph, miner_contributions)]>>

\* C10's case: an eligible pass that has made its one call, for two miners.
C10_Witness ==
    /\ pc = "log"
    /\ update_called
    /\ Len(submitted) = 1
    /\ submitted[1].uids = <<0, 1>>
    /\ Len(submitted[1].weights) = 2

C12_PassRunsToCompletion ==
    /\ [][(pc' = "stopped" /\ pc # "stopped") => (pc \in {"read", "sleep"})]_vars
    /\ [](pc = "stopped" /\ result.success => watermark = current_block)

\* C13: a contract read that fails is skipped: after validate_miners every
\* hotkey of the metagraph has an entry, whose score is 0.7 times the stake
\* read (0 when getLpInfo failed) plus 0.3 times the liquidator score read (0
\* when liquidatorScores failed), whatever happened to the hotkeys before it.
C13_FailedReadIsSkipped ==
    pc \in {"calc", "done"} /\ metagraph.ok
        => \A i \in 1..Len(metagraph.hotkeys) :
              LET hk == metagraph.hotkeys[i]
                  r == contract_reads[hk]
              IN /\ miner_contributions[hk] # NoContribution
                 /\ miner_contributions[hk].total_score =
                       7 * (IF r.liq = ReadFailed THEN 0 ELSE r.liq)
                         + 3 * (IF r.lsc = ReadFailed THEN 0 ELSE r.lsc)

\* C13's case: the first hotkey's getLpInfo failed and its liquidatorScores
\* returned; the entries of the hotkeys after it are there.
C13_Witness ==
    /\ pc = "calc"
    /\ metagraph = [ok |-> TRUE, hotkeys |-> <<"hkA", "hkB", "hkC">>]
    /\ contract_reads["hkA"] = [liq |-> ReadFailed, lsc |-> 1]
    /\ contract_reads["hkB"] = [liq |-> 1, lsc |-> ReadFailed]
    /\ miner_contributions["hkA"].total_score = 3
    /\ miner_contributions["hkB"].total_score = 7
    /\ miner_contributions["hkC"].total_score = 10

\* The entries of the hotkeys that are in the metagraph, and no others.
MembersOnly(mg, mc) ==
    [hk \in DOMAIN mc |->
        IF \E i \in 1..Len(mg.hotkeys) : mg.hotkeys[i] = hk
        THEN mc[hk]
        ELSE NoContribution]

\* C14: a hotkey that is not in the current metagraph has no influence on the
\* weight vector of the pass: the vector update_weights is about to submit is
\* the one calculate_weights gives for the current members' entries alone.
C14_AbsentHotkeyHasNoInfluence ==
    pc = "submit"
        => weights = calculate_weights(metagraph,
                                       MembersOnly(metagraph, miner_contributions))

\* sum(c.total_score ...) of line 279.
TotalScore == SumScores(miner_contributions, Len(KeyOrder))

RECURSIVE ExactSum(_, _)
\* The sum of the first i weights as a number, nothing rounded.
ExactSum(ws, i) == IF i = 0 THEN 0 ELSE ExactSum(ws, i - 1) + ws[i]

TailPermutations(mg) ==
    {[ok |-> TRUE, hotkeys |-> l2] : l2 \in
        {l \in ManyHotkeyLists :
            /\ Len(l) = Len(mg.hotkeys)
            /\ {l[j] : j \in DOMAIN l} = {mg.hotkeys[i] : i \in DOMAIN mg.hotkeys}
            /\ (l # <<>> => l[1] = mg.hotkeys[1])}}

C18_ListsMatchMetagraph ==
    \A k \in 1..Len(submitted) :
        /\ Len(submitted[k].uids) = Len(submitted[k].weights)
        /\ Len(submitted[k].uids) = Len(metagraph.hotkeys)

\* C18's case: a call for a metagraph of two hotkeys of which only one has a
\* positive score.
C18_Witness ==
    /\ pc = "result"
    /\ Len(metagraph.hotkeys) = 2
    /\ Len(submitted) = 1
    /\ submitted[1].weights = <<One, 0>>

\* The score of a hotkey as calculate_weights takes it.
ScoreOf(hk) ==
    IF miner_contributions[hk] = NoContribution THEN 0
    ELSE miner_contributions[hk].total_score

C20_LoadOnceSaveAtEnd ==
    /\ pc = "load" <=> main_trace = <<>>
    /\ pc = "done" <=> Len(main_trace) = 2
    /\ Len(main_trace) <= 2
    /\ main_trace # <<>> => main_trace[1].call = "load_state"
    /\ pc = "stopped" => ENABLED save_state
    /\ Len(main_trace) = 2
          => /\ main_trace[2].call = "save_state"
             /\ main_trace[2].state.content = "state"
             /\ main_trace[2].state.last_weight_update_block = watermark
             /\ ~main_trace[2].raised => state_file = main_trace[2].state

\* C20's case: a run that loaded a state, confirmed a submission at a height
\* other than the one it processed last, was interrupted, and has saved.
C20_Witness ==
    /\ pc = "done"
    /\ interrupted
    /\ Len(main_trace) = 2
    /\ ~main_trace[2].raised
    /\ state_file.last_weight_update_block = watermark
    /\ watermark \in confirmed_heights
    /\ last_processed_block # watermark

\* C21: with weight_update_interval_blocks >= 0 no step of run_validator
\* lowers the watermark, whatever heights the reads return.
C21_WatermarkNeverDecreases ==
    [][interval >= 0 => watermark' >= watermark]_vars

\* C21's case: after a confirmed submission had moved the watermark, a read
\* returned a height below it and the pass went on to the cadence test.
C21_Witness ==
    /\ pc = "check"
    /\ interval >= 0
    /\ confirmed_heights # {}
    /\ watermark \in confirmed_heights
    /\ current_block < watermark

\* C22: whenever the metagraph has at least one hotkey the vector
\* calculate_weights returns is never all zero, and its entries sum to the
\* whole weight 1.0 (here: up to the rounding of the divisions and the sum).
C22_NeverAllZero ==
    pc = "done" /\ metagraph.ok /\ metagraph.hotkeys # <<>>
        => /\ Len(weights) = Len(metagraph.hotkeys)
           /\ \E i \in 1..Len(weights) : weights[i] > 0
           /\ Abs(ExactSum(weights, Len(weights)) - One) * Pow2(MantissaBits)
                 <= One * 2 * Len(weights)

C24_NoSubmissionBeforeStartPlusInterval ==
    [][/\ (pc = "load" => watermark = start_block /\ watermark' = start_block)
       /\ (watermark = start_block /\ watermark' # start_block
              => submitted # <<>> /\ current_block - start_block >= interval)
       /\ (Len(submitted') > Len(submitted) /\ pass_start_watermark = start_block
              => current_block - start_block >= interval)
       /\ (interval > 0 /\ submitted # <<>>
              => current_block - start_block >= interval)]_vars

\* C24's case: with an interval of one block the first submission of the run
\* is made in the pass that observed the start height plus one.
C24_Witness ==
    /\ interval = 1
    /\ state_file = NoFile
    /\ submitted # <<>>
    /\ pass_start_watermark = start_block
    /\ current_block = start_block + 1

\* C25: at every set_weights call each hotkey of the metagraph has an entry
\* that validate_miners wrote in this pass, stamped with the pass's
\* current_block, and the vector submitted is the one calculate_weights gives
\* for those entries.
C25_SubmissionUsesThisPassScores ==
    \A k \in 1..Len(submitted) :
        /\ metagraph.ok
        /\ \A i \in 1..Len(metagraph.hotkeys) :
              /\ miner_contributions[metagraph.hotkeys[i]] # NoContribution
              /\ last_updated_block[metagraph.hotkeys[i]] = current_block
        /\ submitted[k].weights = calculate_weights(metagraph, miner_contributions)

\* C25's case: a submission for two hotkeys in a pass at height 2 that
\* follows a pass at height 1, one hotkey having a positive score.
C25_Witness ==
    /\ Len(submitted) = 1
    /\ metagraph.hotkeys = <<"hkA", "hkB">>
    /\ current_block = 2
    /\ last_processed_block = 1
    /\ last_updated_block = [hk \in Hotkeys |-> 2]
    /\ miner_contributions["hkA"].total_score = 7

\* C26: load_state puts back what save_state wrote: with a saved state in the
\* file it leaves last_weight_update_block, last_processed_block and every
\* saved contribution at the saved values; with no file it changes nothing.
C26_LoadRestoresSavedState ==
    [][pc = "load" /\ pc' = "read"
          => /\ state_file.content = "state"
                  => /\ last_weight_update_block' = state_file.last_weight_update_block
                     /\ last_processed_block' = state_file.last_processed_block
                     /\ \A hk \in Hotkeys :
                           state_file.miner_contributions[hk] # NoContribution
                              => miner_contributions'[hk] =
                                    state_file.miner_contributions[hk]
             /\ state_file = NoFile
                  => UNCHANGED <<last_weight_update_block, last_processed_block,
                                 miner_contributions>>]_vars

\* C27: add_liquidity signs and sends only after its balance check has
\* passed, so never with a balance below the amount; with such a balance the
\* run has ended with exit status 1 and nothing sent once the check is done;
\* and every call that raised has ended the process with exit status 1.
C27_AddLiquidityChecksBalanceFirst ==
    cli.op = "add_liquidity"
        => /\ cli.signed \/ cli.sent > 0
                => cli.checked /\ cli.balance # Unset /\ cli.balance >= cli.amount_wei
           /\ cli.balance # Unset /\ cli.balance < cli.amount_wei
                => /\ cli.sent = 0
                   /\ ~cli.signed
                   /\ cli.pc \in {"lp_info", "check", "exited"}
           /\ cli.raised_at # "none" => cli.pc = "exited"
           /\ cli.pc = "exited" => cli.exit_status = 1 /\ cli.raised_at # "none"
           /\ cli.raised_at \in {"setup", "balance", "lp_info", "check", "build",
                                 "sign", "send"} => cli.sent = 0

\* C27's case: the balance is below the amount; the check has raised and the
\* process has ended with status 1 and nothing signed or sent.
C27_Witness ==
    /\ cli.op = "add_liquidity"
    /\ cli.balance = 1
    /\ cli.amount_wei = 2
    /\ cli.raised_at = "check"
    /\ cli.exit_status = 1
    /\ cli.sent = 0

\* C28: remove_liquidity signs and sends only after its stake check has
\* passed, so never with a stake below the amount; with such a stake the run
\* has ended with exit status 1 and nothing sent once the check is done; and
\* every call that raised has ended the process with exit status 1.
C28_RemoveLiquidityChecksStakeFirst ==
    cli.op = "remove_liquidity"
        => /\ cli.signed \/ cli.sent > 0
                => cli.checked /\ cli.lp_info # Unset /\ cli.lp_info >= cli.amount_wei
           /\ cli.lp_info # Unset /\ cli.lp_info < cli.amount_wei
                => /\ cli.sent = 0
                   /\ ~cli.signed
                   /\ cli.pc \in {"check", "exited"}
           /\ cli.raised_at # "none" => cli.pc = "exited"
           /\ cli.pc = "exited" => cli.exit_status = 1 /\ cli.raised_at # "none"
           /\ cli.raised_at \in {"setup", "lp_info", "check", "build", "sign", "send"}
                => cli.sent = 0

\* C28's case: the stake is below the amount; the check has raised and the
\* process has ended with status 1 and nothing signed or sent.
C28_Witness ==
    /\ cli.op = "remove_liquidity"
    /\ cli.lp_info = 1
    /\ cli.amount_wei = 2
    /\ cli.raised_at = "check"
    /\ cli.exit_status = 1
    /\ cli.sent = 0

====
